---- MODULE Spec2Model ----
(***************************************************************************)
(* MDRM explorer: the batch loader (create_mdrm_database.py) that turns    *)
(* MDRM_CSV.csv into the SQLite store mdrm_database.db, and the read-only  *)
(* web facade (mdrm_web_explorer.py) that answers search, detail and       *)
(* statistics requests from that store.                                    *)
(*                                                                         *)
(* Text is a tuple of one-character strings, so that concatenation,        *)
(* stripping, entity decoding, LIKE matching and ordering are computed     *)
(* character by character.                                                 *)
(***************************************************************************)
EXTENDS Integers, Sequences, FiniteSets, TLC

VARIABLES source, today, pc, runs, df, store, pending, exit_status, prev,
          request, response

vars == <<source, today, pc, runs, df, store, pending, exit_status, prev,
          request, response>>

(***************************************************************************)
(* Bounds of the model.                                                    *)
(***************************************************************************)
\* data rows in the source file
MaxRows == 2
\* runs of the loader in one behaviour
MaxRuns == 2
\* calendar days the clock can reach (day 1 is the first)
MaxDay == 2

(***************************************************************************)
(* Characters and text.                                                    *)
(***************************************************************************)
\* the byte value of a character (SQLite's BINARY collation compares bytes)
Ord(c) ==
    CASE c = "\n" -> 10 [] c = " " -> 32 [] c = "#" -> 35 [] c = "%" -> 37
      [] c = "&" -> 38 [] c = "+" -> 43 [] c = "-" -> 45 [] c = "." -> 46
      [] c = "0" -> 48 [] c = "1" -> 49 [] c = "2" -> 50 [] c = "3" -> 51
      [] c = "4" -> 52 [] c = "5" -> 53 [] c = "6" -> 54 [] c = "7" -> 55
      [] c = "8" -> 56 [] c = "9" -> 57 [] c = ":" -> 58 [] c = ";" -> 59
      [] c = "A" -> 65 [] c = "B" -> 66 [] c = "C" -> 67 [] c = "D" -> 68
      [] c = "F" -> 70 [] c = "N" -> 78 [] c = "R" -> 82 [] c = "S" -> 83
      [] c = "X" -> 88 [] c = "Y" -> 89 [] c = "Z" -> 90 [] c = "_" -> 95
      [] c = "a" -> 97 [] c = "b" -> 98 [] c = "m" -> 109 [] c = "n" -> 110
      [] c = "p" -> 112 [] c = "x" -> 120

Digits == <<"0", "1", "2", "3", "4", "5", "6", "7", "8", "9">>

IsDigit(c) == \E i \in 1..10 : Digits[i] = c

DigitValue(c) == (CHOOSE i \in 1..10 : Digits[i] = c) - 1

\* Python's str(n) for an int n >= 0
RECURSIVE IntToStr(_)
IntToStr(n) ==
    IF n < 10 THEN <<Digits[n + 1]>>
    ELSE IntToStr(n \div 10) \o <<Digits[(n % 10) + 1]>>

\* the number a text of decimal digits denotes (-1 when it is no such text)
RECURSIVE StrToInt(_)
StrToInt(s) ==
    IF s = <<>> \/ \E i \in 1..Len(s) : ~IsDigit(s[i]) THEN -1
    ELSE IF Len(s) = 1 THEN DigitValue(s[1])
    ELSE 10 * StrToInt(SubSeq(s, 1, Len(s) - 1)) + DigitValue(s[Len(s)])

IsSpace(c) == c \in {" ", "\n"}

\* Python's str.strip()
RECURSIVE Strip(_)
Strip(s) ==
    IF s = <<>> THEN s
    ELSE IF IsSpace(s[1]) THEN Strip(Tail(s))
    ELSE IF IsSpace(s[Len(s)]) THEN Strip(SubSeq(s, 1, Len(s) - 1))
    ELSE s

StartsWith(s, p) == Len(p) <= Len(s) /\ SubSeq(s, 1, Len(p)) = p

\* Python's str.replace(old, new) with regex=False: leftmost, non-overlapping
RECURSIVE Replace(_, _, _)
Replace(s, old, new) ==
    IF s = <<>> THEN s
    ELSE IF StartsWith(s, old)
         THEN new \o Replace(SubSeq(s, Len(old) + 1, Len(s)), old, new)
    ELSE <<s[1]>> \o Replace(Tail(s), old, new)

\* memcmp order of two texts: a < b
RECURSIVE TextLess(_, _)
TextLess(a, b) ==
    IF b = <<>> THEN FALSE
    ELSE IF a = <<>> THEN TRUE
    ELSE IF a[1] = b[1] THEN TextLess(Tail(a), Tail(b))
    ELSE Ord(a[1]) < Ord(b[1])

CR_ENTITY == <<"&", "#", "x", "0", "D", ";">>
AMP_ENTITY == <<"&", "a", "m", "p", ";">>
NAN_TEXT == <<"n", "a", "n">>

(***************************************************************************)
(* pandas.read_csv: the cells of a DataFrame.                              *)
(***************************************************************************)
NaN == [t |-> "nan", s |-> <<>>]
Obj(s) == [t |-> "str", s |-> s]

\* texts read_csv takes for a missing value (the empty field, "NA")
NaValues == {<<>>, <<"N", "A">>}

IsNumericText(s) == s # <<>> /\ \A i \in 1..Len(s) : IsDigit(s[i])

RECURSIVE StripZeros(_)
StripZeros(s) == IF Len(s) > 1 /\ s[1] = "0" THEN StripZeros(Tail(s)) ELSE s

\* dtype inference of one column: int64 when every field is a number, float64
\* when the others are missing, object otherwise
ColumnDtype(rows, col) ==
    LET cells == {rows[i][col] : i \in 1..Len(rows)}
        present == cells \ NaValues
    IN  IF rows = <<>> \/ present = {} THEN "object"
        ELSE IF \A s \in present : IsNumericText(s)
             THEN (IF present = cells THEN "int" ELSE "float")
        ELSE "object"

ReadCell(dtype, s) ==
    IF s \in NaValues THEN NaN
    ELSE IF dtype = "object" THEN Obj(s)
    ELSE [t |-> dtype, s |-> StripZeros(s)]

ReadCsv(src) ==
    [columns |-> src.header,
     rows |-> [i \in 1..Len(src.rows) |->
                 [c \in src.header |->
                     ReadCell(ColumnDtype(src.rows, c), src.rows[i][c])]]]

\* Series.astype(str): str() of every cell
AsTypeStr(cell) ==
    CASE cell.t = "nan" -> NAN_TEXT
      [] cell.t = "str" -> cell.s
      [] cell.t = "int" -> cell.s
      [] cell.t = "float" -> cell.s \o <<".", "0">>
      [] cell.t = "ts" -> cell.s
      [] cell.t = "nat" -> <<"N", "a", "T">>

(***************************************************************************)
(* Dates.  A calendar day is a number 1..8; its ISO text is its digit.     *)
(* The source file writes a date as the day followed by " 12:00" (midnight *)
(* in 12-hour form); the store holds a timestamp as ISO text, the day      *)
(* followed by " 00:00".  The day 9 stands for a year past the range of a  *)
(* pandas Timestamp (the file's 12/31/9999).                               *)
(***************************************************************************)
NaT == [t |-> "nat", s |-> <<>>]
Timestamp(d) == [t |-> "ts", s |-> <<Digits[d + 1]>>]
RAW_TIME == <<" ", "1", "2", ":", "0", "0">>
ISO_TIME == <<" ", "0", "0", ":", "0", "0">>

\* SQLite's date('now')
DateNow(day) == <<Digits[day + 1]>>

\* pd.to_datetime(column, errors='coerce') on one cell
ToDatetime(cell) ==
    IF cell.t = "str" /\ Len(cell.s) = 1 + Len(RAW_TIME)
       /\ SubSeq(cell.s, 2, Len(cell.s)) = RAW_TIME
       /\ IsDigit(cell.s[1]) /\ DigitValue(cell.s[1]) \in 1..8
    THEN Timestamp(DigitValue(cell.s[1]))
    ELSE NaT

(***************************************************************************)
(* clean_csv_data                                                          *)
(***************************************************************************)
date_columns == {"Start Date", "End Date"}
text_columns == {"Description", "SeriesGlossary", "Item Name"}

CleanText(cell) ==
    Obj(Strip(Replace(Replace(AsTypeStr(cell), CR_ENTITY, <<"\n">>),
                      AMP_ENTITY, <<"&">>)))

\* df['Mnemonic'].astype(str) + df['Item Code'].astype(str)
MakeIdentifier(mnemonic, item_code) ==
    Obj(AsTypeStr(mnemonic) \o AsTypeStr(item_code))

HasIdentifierColumns(columns) ==
    "Mnemonic" \in columns /\ "Item Code" \in columns

CleanRow(columns, row) ==
    [c \in columns \cup
            (IF HasIdentifierColumns(columns) THEN {"MDRM_Identifier"} ELSE {}) |->
        IF c = "MDRM_Identifier"
        THEN MakeIdentifier(row["Mnemonic"], row["Item Code"])
        ELSE IF c \in date_columns THEN ToDatetime(row[c])
        ELSE IF c \in text_columns THEN CleanText(row[c])
        ELSE row[c]]

clean_csv_data(src) ==
    LET raw == ReadCsv(src)
    IN  [columns |-> raw.columns \cup
                     (IF HasIdentifierColumns(raw.columns)
                      THEN {"MDRM_Identifier"} ELSE {}),
         rows |-> [i \in 1..Len(raw.rows) |-> CleanRow(raw.columns, raw.rows[i])]]

(***************************************************************************)
(* The store: the SQLite file mdrm_database.db with its two tables.        *)
(***************************************************************************)
Null == [null |-> TRUE, s |-> <<>>]
Text(s) == [null |-> FALSE, s |-> s]

\* the value sqlite3 binds for a DataFrame cell, as the column keeps it
SqlValue(cell) ==
    CASE cell.t \in {"nan", "nat"} -> Null
      [] cell.t = "ts" -> Text(cell.s \o ISO_TIME)
      [] OTHER -> Text(AsTypeStr(cell))

NoStore == [exists |-> FALSE, has_data |-> FALSE, data |-> <<>>,
            has_summary |-> FALSE, summary |-> {}]

\* what sqlite3.connect leaves where no file was: an empty database file
EmptyFile == [NoStore EXCEPT !.exists = TRUE]

\* mutant: the existing file is kept
RemoveExisting_Keep(st) == st

\* mutant: only a store that a load completed is removed
RemoveExisting_IfComplete(st) == IF st.has_summary /\ st.summary # {} THEN NoStore ELSE st

\* os.path.exists(db_name) / os.remove(db_name)
RemoveExisting(st) == IF st.exists THEN NoStore ELSE st

columns_mapping ==
    [mdrm_identifier |-> "MDRM_Identifier", mnemonic |-> "Mnemonic",
     item_code |-> "Item Code", start_date |-> "Start Date",
     end_date |-> "End Date", item_name |-> "Item Name",
     confidentiality |-> "Confidentiality", item_type |-> "ItemType",
     reporting_form |-> "Reporting Form", description |-> "Description",
     series_glossary |-> "SeriesGlossary"]

insert_columns == DOMAIN columns_mapping

\* df_clean[insert_columns] raises KeyError unless every column is there
CanSelect(frame) ==
    \A k \in insert_columns : columns_mapping[k] \in frame.columns

\* one row of mdrm_data: the AUTOINCREMENT key, the bound values, the
\* CURRENT_TIMESTAMP default
FactRow(id, row, stamp) ==
    [k \in insert_columns \cup {"id", "created_at"} |->
        IF k = "id" THEN Text(IntToStr(id))
        ELSE IF k = "created_at" THEN Text(stamp)
        ELSE SqlValue(row[columns_mapping[k]])]

\* CURRENT_TIMESTAMP: the day and, standing for the time of day, the run
Stamp(day, run) == <<Digits[day + 1], " ", Digits[run + 1]>>

\* mutant: the last row of the frame is not inserted
ToSql_DropLast(data, frame, stamp) ==
    data \o [i \in 1..(Len(frame.rows) - 1) |->
                FactRow(Len(data) + i, frame.rows[i], stamp)]

\* df_insert.to_sql('mdrm_data', conn, if_exists='append', index=False)
ToSql(data, frame, stamp) ==
    data \o [i \in 1..Len(frame.rows) |->
                FactRow(Len(data) + i, frame.rows[i], stamp)]

(***************************************************************************)
(* create_summary_stats                                                    *)
(***************************************************************************)
\* SELECT COUNT(*) FROM mdrm_data WHERE ...: the rows selected are counted
Count(selected) == Cardinality(selected)

\* SELECT COUNT(DISTINCT <k>) FROM mdrm_data: nulls are not counted
CountDistinct(data, k) ==
    Cardinality({data[i][k].s : i \in {j \in 1..Len(data) : ~data[j][k].null}})

IsValue(v, s) == ~v.null /\ v.s = s

NotEmpty(v) == ~v.null /\ v.s # <<>>

\* end_date > date('now'): a comparison of texts, unknown on NULL
IsActive(r, day) == ~r.end_date.null /\ TextLess(DateNow(day), r.end_date.s)

\* end_date <= date('now')
IsExpired(r, day) == ~r.end_date.null /\ ~TextLess(DateNow(day), r.end_date.s)

\* mutant: every row that is not public counts as confidential
IsConfidential_NotPublic(r) == ~IsValue(r.confidentiality, <<"N">>)

IsConfidential(r) == IsValue(r.confidentiality, <<"Y">>)

IsPublic(r) == IsValue(r.confidentiality, <<"N">>)

\* the query tool's "Active vs Expired Items": CASE WHEN end_date >
\* date('now') THEN 'Active' ELSE 'Expired' END, grouped and counted
ActiveVsExpired(data, day) ==
    [Active |-> Cardinality({i \in 1..Len(data) : IsActive(data[i], day)}),
     Expired |-> Cardinality({i \in 1..Len(data) : ~IsActive(data[i], day)})]

\* a row of mdrm_summary; the name is kept as (fixed part, item type code)
StatRow(name, code, n, stamp) ==
    [statistic_name |-> <<name, code>>, statistic_value |-> IntToStr(n),
     created_at |-> stamp]

stats_queries(data, day, stamp) ==
    LET rows == 1..Len(data)
    IN  { StatRow("total_records", <<>>, Count(rows), stamp),
          StatRow("unique_mnemonics", <<>>, CountDistinct(data, "mnemonic"), stamp),
          StatRow("unique_item_codes", <<>>, CountDistinct(data, "item_code"), stamp),
          StatRow("unique_reporting_forms", <<>>,
                  Cardinality({data[i].reporting_form.s :
                      i \in {j \in rows : NotEmpty(data[j].reporting_form)}}),
                  stamp),
          StatRow("confidential_items", <<>>,
                  Count({i \in rows : IsConfidential(data[i])}), stamp),
          StatRow("public_items", <<>>,
                  Count({i \in rows : IsPublic(data[i])}), stamp),
          StatRow("active_items", <<>>,
                  Count({i \in rows : IsActive(data[i], day)}), stamp),
          StatRow("expired_items", <<>>,
                  Count({i \in rows : IsExpired(data[i], day)}), stamp) }

\* mutant: the GROUP BY without its WHERE clause
item_types_NoWhere(data) == {data[i].item_type.s : i \in 1..Len(data)}

\* SELECT item_type, COUNT(*) ... WHERE item_type IS NOT NULL AND
\* item_type != '' GROUP BY item_type
item_types(data) ==
    {data[i].item_type.s : i \in {j \in 1..Len(data) : NotEmpty(data[j].item_type)}}

item_type_rows(data, stamp) ==
    { StatRow("item_type_", code,
              Count({i \in 1..Len(data) : IsValue(data[i].item_type, code)}), stamp)
      : code \in item_types(data) }

create_summary_stats(data, day, stamp) ==
    stats_queries(data, day, stamp) \cup item_type_rows(data, stamp)

(***************************************************************************)
(* The source file MDRM_CSV.csv: absent, or a header and its data rows.    *)
(***************************************************************************)
AllColumns ==
    {"Mnemonic", "Item Code", "Start Date", "End Date", "Item Name",
     "Confidentiality", "ItemType", "Reporting Form", "Description",
     "SeriesGlossary"}

AbsentFile == [kind |-> "absent", header |-> {}, rows |-> <<>>]

RawDate(d) == <<Digits[d + 1]>> \o RAW_TIME

T_RC == <<"R", "C">>
T_NAME == <<"A", "b">>

DefaultRow ==
    [c \in AllColumns |->
        CASE c = "Mnemonic" -> T_RC
          [] c = "Item Code" -> <<"C", "1">>
          [] c = "Start Date" -> RawDate(1)
          [] c = "End Date" -> RawDate(9)
          [] c = "Item Name" -> T_NAME
          [] c = "Confidentiality" -> <<"N">>
          [] c = "ItemType" -> <<"F">>
          [] c = "Reporting Form" -> <<"F", "R">>
          [] c = "Description" -> <<"D">>
          [] c = "SeriesGlossary" -> <<>>]

\* the sequences of 1..MaxRows rows of a family
SeqsOf(family) == UNION {[1..n -> family] : n \in 1..MaxRows}

EndDateRows ==
    {[DefaultRow EXCEPT !["End Date"] = e] :
        e \in {<<>>, <<"x">>, RawDate(9)} \cup {RawDate(d) : d \in 1..MaxDay}}

ConfidentialityRows ==
    {[DefaultRow EXCEPT !["Confidentiality"] = v] :
        v \in {<<>>, <<"Y">>, <<"N">>, <<"X">>}}

ItemTypeRows ==
    {[DefaultRow EXCEPT !["ItemType"] = v] : v \in {<<>>, <<"F">>, <<"S">>}}

IdentifierRows ==
    {[DefaultRow EXCEPT !["Mnemonic"] = m, !["Item Code"] = c] :
        m \in {<<>>, <<"R">>, T_RC},
        c \in {<<>>, <<"1">>, <<"0", "1">>, <<"C", "1">>}}

\* descriptions with the two entities, with blanks around, and missing
DescriptionRows ==
    {[DefaultRow EXCEPT !["Description"] = v] :
        v \in {<<>>,
               <<" ", "a">> \o AMP_ENTITY \o <<"b", " ">>,
               <<"a">> \o CR_ENTITY \o <<"b">>,
               <<"&", "a", "m", "p", ";", "#", "x", "0", "D", ";">>,
               <<"0", "1">>}}

FullSources ==
    {[kind |-> "file", header |-> AllColumns, rows |-> rows] :
        rows \in {<<>>} \cup SeqsOf(EndDateRows) \cup SeqsOf(ConfidentialityRows)
                 \cup SeqsOf(ItemTypeRows) \cup SeqsOf(IdentifierRows)
                 \cup SeqsOf(DescriptionRows)}

\* files whose header lacks one of the expected columns
PartialSources ==
    {[kind |-> "file", header |-> AllColumns \ {lost},
      rows |-> [i \in 1..n |-> [c \in AllColumns \ {lost} |-> DefaultRow[c]]]] :
        lost \in {"Mnemonic", "Item Code", "Description"}, n \in 0..MaxRows}

Sources == {AbsentFile} \cup FullSources \cup PartialSources

(***************************************************************************)
(* The loader: main, clean_csv_data, create_database.                      *)
(***************************************************************************)
NoFrame == [columns |-> {}, rows |-> <<>>]
NoPrev == [valid |-> FALSE, store |-> NoStore]
NoRequest == [op |-> "none"]
NoResponse == [status |-> 0]

InitLoader ==
    /\ today = 1
    /\ pc = "idle"
    /\ runs = 0
    /\ df = NoFrame
    /\ store \in {NoStore, EmptyFile}
    /\ pending = {}
    /\ exit_status = -1
    /\ prev = NoPrev
    /\ request = NoRequest
    /\ response = NoResponse

Init == source \in Sources /\ InitLoader

\* the wall clock reaches the next day
Tick ==
    /\ today < MaxDay
    /\ today' = today + 1
    /\ UNCHANGED <<source, pc, runs, df, store, pending, exit_status, prev,
                   request, response>>

\* mutant: the existence check is skipped
CsvExists_Always(src) == TRUE

\* os.path.exists('MDRM_CSV.csv')
CsvExists(src) == src.kind # "absent"

\* main: the existence check, then clean_csv_data; prev keeps the store the
\* run found and whether the run before it completed
Main ==
    /\ pc \in {"idle", "done", "failed", "aborted"}
    /\ runs < MaxRuns
    /\ runs' = runs + 1
    /\ prev' = [valid |-> pc = "done", store |-> store]
    /\ pending' = {}
    /\ IF ~CsvExists(source)
       THEN pc' = "failed" /\ exit_status' = 1 /\ df' = NoFrame
       ELSE pc' = "cleaned" /\ exit_status' = -1 /\ df' = clean_csv_data(source)
    /\ UNCHANGED <<source, today, store, request, response>>

\* create_database: remove the existing database file
RemoveStore ==
    /\ pc = "cleaned"
    /\ store' = RemoveExisting(store)
    /\ pc' = "removed"
    /\ UNCHANGED <<source, today, runs, df, pending, exit_status, prev,
                   request, response>>

\* sqlite3.connect, CREATE TABLE mdrm_data and its indexes (each statement
\* is committed as it runs); CREATE TABLE raises when the table is there
CreateSchema ==
    /\ pc = "removed"
    /\ IF store.has_data
       THEN pc' = "failed" /\ exit_status' = 1
            /\ store' = [store EXCEPT !.exists = TRUE]
       ELSE pc' = "schema" /\ exit_status' = exit_status
            /\ store' = [store EXCEPT !.exists = TRUE, !.has_data = TRUE,
                                      !.data = <<>>]
    /\ UNCHANGED <<source, today, runs, df, pending, prev, request, response>>

\* the column selection and to_sql, which commits its own transaction
InsertData ==
    /\ pc = "schema"
    /\ IF CanSelect(df)
       THEN pc' = "inserted" /\ exit_status' = exit_status
            /\ store' = [store EXCEPT !.data = ToSql(store.data, df, Stamp(today, runs))]
       ELSE pc' = "failed" /\ exit_status' = 1 /\ store' = store
    /\ UNCHANGED <<source, today, runs, df, pending, prev, request, response>>

\* create_summary_stats: CREATE TABLE mdrm_summary is committed as it runs,
\* the inserted statistics wait in the open transaction
SummaryStats ==
    /\ pc = "inserted"
    /\ IF store.has_summary
       THEN pc' = "failed" /\ exit_status' = 1 /\ store' = store
            /\ pending' = pending
       ELSE pc' = "stats" /\ exit_status' = exit_status
            /\ store' = [store EXCEPT !.has_summary = TRUE, !.summary = {}]
            /\ pending' = create_summary_stats(store.data, today, Stamp(today, runs))
    /\ UNCHANGED <<source, today, runs, df, prev, request, response>>

\* conn.commit(), conn.close() and the return to main
Commit ==
    /\ pc = "stats"
    /\ store' = [store EXCEPT !.summary = store.summary \cup pending]
    /\ pending' = {}
    /\ pc' = "done"
    /\ exit_status' = 0
    /\ UNCHANGED <<source, today, runs, df, prev, request, response>>

NextLoader == Tick \/ Main \/ RemoveStore \/ CreateSchema \/ InsertData
              \/ SummaryStats \/ Commit

Spec == Init /\ [][NextLoader]_vars

(***************************************************************************)
(* Loads that do not finish, and loads over what an earlier load left.     *)
(***************************************************************************)
\* the process ends inside create_database (an exception caught by main, or
\* the process killed): the statements already committed stay in the file,
\* the open transaction is rolled back
Abort ==
    /\ pc \in {"cleaned", "removed", "schema", "inserted", "stats"}
    /\ pc' = "aborted"
    /\ exit_status' = 1
    /\ pending' = {}
    /\ UNCHANGED <<source, today, runs, df, store, prev, request, response>>

RecoveryRows ==
    {[DefaultRow EXCEPT !["Item Name"] = n] : n \in {T_NAME, <<"B">>}}

\* a file of bytes that are not UTF-8: the first read_csv raises
\* UnicodeDecodeError and the second, under latin-1, reads every byte
Latin1File ==
    [kind |-> "latin1", header |-> AllColumns, rows |-> <<DefaultRow>>]

RecoverySources ==
    {AbsentFile, Latin1File}
      \cup {[kind |-> "file", header |-> AllColumns, rows |-> rows] :
              rows \in {<<>>} \cup SeqsOf(RecoveryRows)}

\* the file an earlier load read, and the stores that load can have left:
\* after the schema, after the insert, during the aggregation, complete
OldSource ==
    [kind |-> "file", header |-> AllColumns,
     rows |-> <<[DefaultRow EXCEPT !["Item Name"] = <<"O", "l", "d">>,
                                   !["ItemType"] = <<"S">>]>>]

OldData == ToSql(<<>>, clean_csv_data(OldSource), Stamp(1, 0))

PriorStores ==
    LET schema == [EmptyFile EXCEPT !.has_data = TRUE]
        inserted == [schema EXCEPT !.data = OldData]
        aggregating == [inserted EXCEPT !.has_summary = TRUE]
        complete == [aggregating EXCEPT
                        !.summary = create_summary_stats(OldData, 1, Stamp(1, 0))]
    IN  {NoStore, EmptyFile, schema, inserted, aggregating, complete}

InitRecovery ==
    /\ source \in RecoverySources
    /\ today = 1
    /\ pc = "idle"
    /\ runs = 0
    /\ df = NoFrame
    /\ store \in PriorStores
    /\ pending = {}
    /\ exit_status = -1
    /\ prev = NoPrev
    /\ request = NoRequest
    /\ response = NoResponse

NextRecovery == NextLoader \/ Abort

SpecRecovery == InitRecovery /\ [][NextRecovery]_vars

(***************************************************************************)
(* The web facade: search, get_details, get_stats.                         *)
(***************************************************************************)
\* a request parameter that the caller did not send
ABSENT == <<"">>

DefaultLimit == 50
TopMnemonics == 10

Arg(param, default) == IF param = ABSENT THEN default ELSE param

\* Python's int() of a parameter text: -999 stands for ValueError
ParseInt(s) ==
    LET t == Strip(s)
        body == IF t # <<>> /\ t[1] \in {"-", "+"} THEN Tail(t) ELSE t
    IN  IF ~IsNumericText(body) THEN -999
        ELSE IF t[1] = "-" THEN 0 - StrToInt(body)
        ELSE StrToInt(body)

\* SQLite folds the case of ASCII letters only
Upper(c) ==
    CASE c = "a" -> "A" [] c = "b" -> "B" [] c = "m" -> "M" [] c = "n" -> "N"
      [] c = "p" -> "P" [] c = "x" -> "X" [] OTHER -> c

\* SQLite's  text LIKE pattern : % is any run of characters, _ any one
RECURSIVE Like(_, _)
Like(pattern, text) ==
    IF pattern = <<>> THEN text = <<>>
    ELSE IF pattern[1] = "%"
         THEN \E k \in 0..Len(text) :
                 Like(Tail(pattern), SubSeq(text, k + 1, Len(text)))
    ELSE /\ text # <<>>
         /\ pattern[1] = "_" \/ Upper(pattern[1]) = Upper(text[1])
         /\ Like(Tail(pattern), Tail(text))

\* WHERE <column> LIKE ? : unknown, so not selected, on NULL
SqlLike(v, pattern) == ~v.null /\ Like(pattern, v.s)

\* the order of two values under ORDER BY: NULL first, then memcmp
SqlLess(a, b) ==
    IF a.null THEN ~b.null ELSE ~b.null /\ TextLess(a.s, b.s)

\* the orders in which the rows idx may come back under an ORDER BY that
\* puts row i before row j for <<i, j>> in before (rows that tie come back
\* in either order)
Orderings(idx, before) ==
    {o \in [1..Cardinality(idx) -> idx] :
        /\ \A i, j \in 1..Cardinality(idx) : i # j => o[i] # o[j]
        /\ \A i, j \in 1..Cardinality(idx) :
              i < j => <<o[j], o[i]>> \notin before}

\* LIMIT n: a negative n is no limit
Limit(seq, n) ==
    IF n < 0 \/ n >= Len(seq) THEN seq ELSE SubSeq(seq, 1, n)

search_fields ==
    {"mdrm_identifier", "mnemonic", "item_code", "item_name", "item_type",
     "confidentiality", "start_date", "end_date"}

SearchRow(r) == [k \in search_fields |-> r[k]]

\* the result lists the SQL of search can produce
SearchResults(data, query, search_type, limit) ==
    LET pattern == <<"%">> \o query \o <<"%">>
        rows == 1..Len(data)
        ByStartDesc == {<<i, j>> \in rows \X rows :
                           SqlLess(data[j].start_date, data[i].start_date)}
        ByName == {<<i, j>> \in rows \X rows :
                      SqlLess(data[i].item_name, data[j].item_name)}
        ByMnemonicName ==
            {<<i, j>> \in rows \X rows :
                \/ SqlLess(data[i].mnemonic, data[j].mnemonic)
                \/ /\ data[i].mnemonic = data[j].mnemonic
                   /\ SqlLess(data[i].item_name, data[j].item_name)}
        Cut(orders) ==
            {[i \in 1..Len(Limit(o, limit)) |-> SearchRow(data[o[i]])] : o \in orders}
    IN  IF query = <<>>
        THEN Cut(Orderings(rows, ByStartDesc))
        ELSE IF search_type = "item_name"
        THEN Cut(Orderings({i \in rows : SqlLike(data[i].item_name, pattern)}, ByName))
        ELSE IF search_type = "mnemonic"
        THEN Cut(Orderings({i \in rows : SqlLike(data[i].mnemonic, pattern)}, ByName))
        ELSE IF search_type = "item_code"
        THEN Cut(Orderings({i \in rows : SqlLike(data[i].item_code, pattern)},
                           ByMnemonicName))
        ELSE {<<>>}

\* get_db_connection: sqlite3.connect creates the file when there is none
get_db_connection(st) == IF st.exists THEN st ELSE EmptyFile

ServerError == [status |-> 500, body |-> <<>>]
NotFound == [status |-> 404, body |-> <<>>]
Ok(body) == [status |-> 200, body |-> body]

\* GET /api/search?q=..&type=..&limit=..
Search(q, type, limit) ==
    LET query == Strip(Arg(q, <<>>))
        search_type == IF type = "(absent)" THEN "item_name" ELSE type
        n == IF limit = ABSENT THEN DefaultLimit ELSE ParseInt(limit)
    IN  /\ request' = [op |-> "search", q |-> q, type |-> type, limit |-> limit]
        /\ IF n = -999
           THEN response' = ServerError /\ store' = store
           ELSE /\ store' = get_db_connection(store)
                /\ IF query = <<>> \/ search_type \in {"item_name", "mnemonic", "item_code"}
                   THEN IF store.has_data
                        THEN \E rows \in SearchResults(store.data, query, search_type, n) :
                                response' = Ok(rows)
                        ELSE response' = ServerError
                   ELSE response' = Ok(<<>>)
        /\ UNCHANGED <<source, today, pc, runs, df, pending, exit_status, prev>>

\* SELECT * FROM mdrm_data WHERE mdrm_identifier = ? and fetchone: the
\* matching row of the lowest rowid
DetailsOf(data, mdrm_id) ==
    LET hits == {i \in 1..Len(data) : IsValue(data[i].mdrm_identifier, mdrm_id)}
    IN  IF hits = {} THEN NotFound
        ELSE Ok(<<data[CHOOSE i \in hits : \A j \in hits : i <= j]>>)

\* GET /api/details/<mdrm_id>; clicked is the search result the caller took
\* the identifier from (the page's showDetails), or no row
get_details(mdrm_id, clicked) ==
    /\ request' = [op |-> "details", id |-> mdrm_id, clicked |-> clicked]
    /\ store' = get_db_connection(store)
    /\ response' = IF store.has_data THEN DetailsOf(store.data, mdrm_id)
                   ELSE ServerError
    /\ UNCHANGED <<source, today, pc, runs, df, pending, exit_status, prev>>

\* SELECT mnemonic, COUNT(*) ... GROUP BY mnemonic ORDER BY count DESC LIMIT 10
TopMnemonicLists(data) ==
    LET groups == {data[i].mnemonic : i \in 1..Len(data)}
        CountOf(m) == Cardinality({i \in 1..Len(data) : data[i].mnemonic = m})
    IN  {[i \in 1..Len(Limit(o, TopMnemonics)) |->
             [mnemonic |-> o[i], count |-> CountOf(o[i])]] :
          o \in {x \in [1..Cardinality(groups) -> groups] :
                   /\ \A i, j \in 1..Cardinality(groups) : i # j => x[i] # x[j]
                   /\ \A i, j \in 1..Cardinality(groups) :
                         i < j => CountOf(x[i]) >= CountOf(x[j])}}

\* GET /api/stats
get_stats ==
    /\ request' = [op |-> "stats"]
    /\ store' = get_db_connection(store)
    /\ IF store.has_summary /\ store.has_data
       THEN \E top \in TopMnemonicLists(store.data) :
               response' = Ok(<<[stats |-> {<<r.statistic_name, r.statistic_value>> :
                                              r \in store.summary},
                                 top_mnemonics |-> top]>>)
       ELSE response' = ServerError
    /\ UNCHANGED <<source, today, pc, runs, df, pending, exit_status, prev>>

(***************************************************************************)
(* The requests callers send.                                              *)
(***************************************************************************)
Queries == {ABSENT, <<" ">>, <<"a">>, <<"_">>, <<"%">>, <<"A", "B">>, <<"x">>}

SearchTypes == {"(absent)", "item_name", "mnemonic", "item_code", "bogus"}

Limits == {ABSENT, <<"-", "1">>, <<"0">>, <<"1">>, <<"x">>}

\* every query by item name, one query under every search type, and the
\* empty query under every limit
SearchRequests ==
    {<<q, "item_name", ABSENT>> : q \in Queries}
      \cup {<<(<<"C">>), t, ABSENT>> : t \in SearchTypes}
      \cup {<<ABSENT, "(absent)", l>> : l \in Limits}

Identifiers == {<<"R", "C", "C", "1">>, <<"Z">>}

NoRow == [k \in search_fields |-> Null]

DoSearch == \E r \in SearchRequests : Search(r[1], r[2], r[3])

\* the caller types an identifier
DoDetails == \E id \in Identifiers : get_details(id, NoRow)

\* the caller clicks a row of the search result on the page
DoClick ==
    /\ request.op = "search"
    /\ response.status = 200
    /\ \E i \in 1..Len(response.body) :
          /\ ~response.body[i].mdrm_identifier.null
          /\ get_details(response.body[i].mdrm_identifier.s, response.body[i])

DoStats == get_stats

FacadeRows ==
    {[DefaultRow EXCEPT !["Item Name"] = n, !["Mnemonic"] = m] :
        n \in {T_NAME, <<"a", "_">>}, m \in {<<"R">>, T_RC}} \ {DefaultRow}

FacadeSources ==
    {AbsentFile}
      \cup {[kind |-> "file", header |-> AllColumns, rows |-> rows] :
              rows \in {<<>>} \cup SeqsOf(FacadeRows)}

InitFacade ==
    /\ source \in FacadeSources
    /\ InitLoader
    /\ store = NoStore

Next == NextLoader \/ DoSearch \/ DoDetails \/ DoClick \/ DoStats

SpecFacade == InitFacade /\ [][Next]_vars

(***************************************************************************)
(* Reading the stored statistics.                                          *)
(***************************************************************************)
HasStat(summary, name, code) ==
    \E r \in summary : r.statistic_name = <<name, code>>

StatText(summary, name, code) ==
    (CHOOSE r \in summary : r.statistic_name = <<name, code>>).statistic_value

StatValue(summary, name) == StrToInt(StatText(summary, name, <<>>))

RECURSIVE SumOf(_)
SumOf(rows) ==
    IF rows = {} THEN 0
    ELSE LET r == CHOOSE x \in rows : TRUE
         IN  StrToInt(r.statistic_value) + SumOf(rows \ {r})

ItemTypeStats(summary) == {r \in summary : r.statistic_name[1] = "item_type_"}

RowsWhere(data, P(_)) == {i \in 1..Len(data) : P(data[i])}

FullFile == source.kind = "file" /\ source.header = AllColumns

(***************************************************************************)
(* C1: after every completed run, whatever rows were loaded (rows with a   *)
(* null end date included), active_items + expired_items = total_records.  *)
(***************************************************************************)
C1_ActiveExpiredPartition ==
    pc = "done" =>
        StatValue(store.summary, "active_items")
          + StatValue(store.summary, "expired_items")
        = StatValue(store.summary, "total_records")

(***************************************************************************)
(* C2: after every completed run, confidential_items + public_items + the  *)
(* number of fact rows whose confidentiality is neither "Y" nor "N" (null  *)
(* included) = total_records; confidential_items counts exactly the "Y"    *)
(* rows and public_items exactly the "N" rows.                             *)
(***************************************************************************)
C2_ConfidentialityPartition ==
    pc = "done" =>
        LET IsY(r) == r.confidentiality = Text(<<"Y">>)
            IsN(r) == r.confidentiality = Text(<<"N">>)
            Other(r) == ~IsY(r) /\ ~IsN(r)
        IN  /\ StatValue(store.summary, "confidential_items")
                 = Cardinality(RowsWhere(store.data, IsY))
            /\ StatValue(store.summary, "public_items")
                 = Cardinality(RowsWhere(store.data, IsN))
            /\ StatValue(store.summary, "confidential_items")
                 + StatValue(store.summary, "public_items")
                 + Cardinality(RowsWhere(store.data, Other))
               = StatValue(store.summary, "total_records")

C2_Witness ==
    /\ pc = "done"
    /\ \E i, j \in 1..Len(store.data) :
          /\ store.data[i].confidentiality = Text(<<"Y">>)
          /\ store.data[j].confidentiality.null

(***************************************************************************)
(* C3: after every completed run the statistics table holds exactly one    *)
(* row item_type_<code> per distinct non-null, non-empty item_type of the  *)
(* fact table, valued with that type's row count, so the values sum to the *)
(* number of fact rows with a non-null, non-empty item_type.               *)
(***************************************************************************)
C3_ItemTypeRows ==
    pc = "done" =>
        LET Typed(r) == ~r.item_type.null /\ r.item_type.s # <<>>
            codes == {store.data[i].item_type.s : i \in RowsWhere(store.data, Typed)}
            stats == ItemTypeStats(store.summary)
        IN  /\ {r.statistic_name[2] : r \in stats} = codes
            /\ Cardinality(stats) = Cardinality(codes)
            /\ \A r \in stats :
                  LET Same(x) == x.item_type = Text(r.statistic_name[2])
                  IN  StrToInt(r.statistic_value)
                        = Cardinality(RowsWhere(store.data, Same))
            /\ SumOf(stats) = Cardinality(RowsWhere(store.data, Typed))

C3_Witness ==
    /\ pc = "done"
    /\ ItemTypeStats(store.summary) # {}
    /\ \E i \in 1..Len(store.data) : store.data[i].item_type.null

(***************************************************************************)
(* C4: running the pipeline twice in a row on the same source file gives   *)
(* the same fact table (surrogate key and created_at aside) and the same   *)
(* statistics (timestamps aside, and active/expired aside when the date    *)
(* differs between the runs); the second run neither appends to nor fails  *)
(* on the store the first one left.                                        *)
(***************************************************************************)
FactView(data) ==
    [i \in 1..Len(data) |-> [k \in insert_columns |-> data[i][k]]]

StatsDay(summary) == {r.created_at[1] : r \in summary}

StatsView(summary, dated) ==
    {<<r.statistic_name, r.statistic_value>> :
        r \in {x \in summary :
                  dated \/ x.statistic_name[1] \notin {"active_items", "expired_items"}}}

C4_RerunIdempotent ==
    prev.valid =>
        /\ pc # "failed"
        /\ pc = "done" =>
              LET sameDay == StatsDay(store.summary) = StatsDay(prev.store.summary)
              IN  /\ FactView(store.data) = FactView(prev.store.data)
                  /\ StatsView(store.summary, sameDay)
                       = StatsView(prev.store.summary, sameDay)

C4_Witness ==
    /\ pc = "done"
    /\ prev.valid
    /\ Len(store.data) = MaxRows
    /\ StatsDay(store.summary) # StatsDay(prev.store.summary)
    /\ StatValue(store.summary, "active_items")
         # StatValue(prev.store.summary, "active_items")

(***************************************************************************)
(* C5: when the header lacks the mnemonic column, the item-code column or  *)
(* another expected column, the run does not fail: it completes with exit  *)
(* status success and stores null for the missing fields (identifier       *)
(* included) in every fact row.                                            *)
(***************************************************************************)
C5_MissingColumnLoads ==
    (source.kind = "file" /\ source.header # AllColumns) =>
        /\ pc # "failed"
        /\ pc = "done" =>
              /\ exit_status = 0
              /\ Len(store.data) = Len(source.rows)
              /\ \A i \in 1..Len(store.data) : \A k \in insert_columns :
                    columns_mapping[k] \notin df.columns => store.data[i][k].null

(***************************************************************************)
(* C6: for every row of a source with both the mnemonic and the item-code  *)
(* column, the stored identifier is the stored mnemonic followed by the    *)
(* stored item code; duplicate source rows yield duplicate identifiers.    *)
(***************************************************************************)
SqlConcat(a, b) == IF a.null \/ b.null THEN Null ELSE Text(a.s \o b.s)

C6_IdentifierIsConcatenation ==
    (pc \in {"inserted", "stats", "done"} /\ HasIdentifierColumns(source.header)) =>
        /\ Len(store.data) = Len(source.rows)
        /\ \A i \in 1..Len(store.data) :
              store.data[i].mdrm_identifier
                = SqlConcat(store.data[i].mnemonic, store.data[i].item_code)

(***************************************************************************)
(* C7: after a completed load of a source with n >= 0 data rows and all    *)
(* expected columns, the fact table holds exactly n rows and total_records *)
(* is n; for n = 0 the run still succeeds, the fact table is empty,        *)
(* total_records is the text "0" and there is no item_type_<code> row.     *)
(***************************************************************************)
C7_RowCount ==
    FullFile =>
        /\ pc # "failed"
        /\ pc = "done" =>
              /\ exit_status = 0
              /\ Len(store.data) = Len(source.rows)
              /\ StatText(store.summary, "total_records", <<>>)
                   = IntToStr(Len(source.rows))
              /\ source.rows = <<>> =>
                    /\ store.data = <<>>
                    /\ StatText(store.summary, "total_records", <<>>) = <<"0">>
                    /\ ItemTypeStats(store.summary) = {}

C7_Witness ==
    /\ pc = "done"
    /\ FullFile
    /\ source.rows = <<>>
    /\ store.has_data
    /\ HasStat(store.summary, "total_records", <<>>)

(***************************************************************************)
(* Steps of the facade, for the claims about what a request returns.       *)
(***************************************************************************)
\* this step served a request
Served == <<request, response>>' # <<request, response>>

\* q occurs in text, letter case aside
Contains(text, q) ==
    \E k \in 0..(Len(text) - Len(q)) :
        \A i \in 1..Len(q) : Upper(text[k + i]) = Upper(q[i])

FieldOf(search_type) ==
    CASE search_type = "item_name" -> "item_name"
      [] search_type = "mnemonic" -> "mnemonic"
      [] search_type = "item_code" -> "item_code"

LimitOf(req) == IF req.limit = ABSENT THEN DefaultLimit ELSE ParseInt(req.limit)

(***************************************************************************)
(* C8: for every non-empty query q and every search type in {item_name,    *)
(* mnemonic, item_code}, every returned row has q as a case-insensitive    *)
(* substring of the chosen field, and no matching row is left out except   *)
(* by the limit cut-off (also for q containing % or _).                    *)
(***************************************************************************)
C8_SearchIsSubstringMatch ==
    [][(/\ Served
        /\ request'.op = "search"
        /\ request'.q \notin {ABSENT, <<>>}
        /\ request'.type \in {"item_name", "mnemonic", "item_code"}
        /\ store.has_data)
       => LET k == FieldOf(request'.type)
              Matches(r) == ~r[k].null /\ Contains(r[k].s, request'.q)
          IN  /\ response'.status = 200
              /\ \A i \in 1..Len(response'.body) : Matches(response'.body[i])
              /\ \/ Len(response'.body) = LimitOf(request')
                 \/ \A j \in RowsWhere(store.data, Matches) :
                       \E i \in 1..Len(response'.body) :
                          response'.body[i] = SearchRow(store.data[j])]_vars

(***************************************************************************)
(* C9: for every search request the number of returned rows is at most the *)
(* caller's limit, and at most 50 when none is sent, for every integer     *)
(* limit, 0 and negative ones included (a limit below 0 can admit no row,  *)
(* so it is read as admitting none).                                       *)
(***************************************************************************)
C9_LimitCapsResult ==
    (request.op = "search" /\ response.status = 200) =>
        Len(response.body)
          <= (IF LimitOf(request) < 0 THEN 0 ELSE LimitOf(request))

(***************************************************************************)
(* C10: for every row a search over a loaded table returned, the point     *)
(* lookup by that row's identifier returns the full record of that same    *)
(* row, also when several fact rows share the identifier; the lookup of an *)
(* identifier that no row holds returns the not-found signal.              *)
(***************************************************************************)
C10_LookupReturnsSearchedRow ==
    [][(/\ Served
        /\ request'.op = "details"
        /\ pc = "done")
       => IF request'.clicked # NoRow
          THEN (\E j \in 1..Len(store.data) :
                   SearchRow(store.data[j]) = request'.clicked)
               => /\ response'.status = 200
                  /\ SearchRow(response'.body[1]) = request'.clicked
          ELSE (\A j \in 1..Len(store.data) :
                   ~IsValue(store.data[j].mdrm_identifier, request'.id))
               => response' = NotFound]_vars

(***************************************************************************)
(* C11: every search or point-lookup request with bad input (an identifier *)
(* no row has, a search type outside {item_name, mnemonic, item_code}, a   *)
(* limit that is not an integer) is answered with a structured not-found   *)
(* or empty-result response, never with a server error.                    *)
(***************************************************************************)
BadInput(data, req) ==
    \/ /\ req.op = "details"
       /\ \A j \in 1..Len(data) : ~IsValue(data[j].mdrm_identifier, req.id)
    \/ /\ req.op = "search"
       /\ \/ req.type \notin {"(absent)", "item_name", "mnemonic", "item_code"}
          \/ req.limit # ABSENT /\ ParseInt(req.limit) = -999

C11_BadInputIsAnswered ==
    [][(/\ Served
        /\ pc = "done"
        /\ BadInput(store.data, request'))
       => /\ response'.status \in {200, 404}
          /\ response'.status = 200 => response'.body = <<>>]_vars

(***************************************************************************)
(* C12: no search, point-lookup or statistics request changes the          *)
(* persistent store: the fact table, the statistics table and the          *)
(* existence of the store file are the same after the request as before,   *)
(* also when the store file is absent when the request arrives.            *)
(***************************************************************************)
\* a step of the facade: the loader and the clock stand still
FacadeStep == pc' = pc /\ runs' = runs /\ today' = today

C12_RequestsLeaveStore == [][FacadeStep => store' = store]_vars

(***************************************************************************)
(* C16: a reader that runs while a load is in progress observes either the *)
(* complete old store or an error, never an intermediate new store (such   *)
(* as a fact table that is empty or populated while the statistics table   *)
(* is missing or empty).                                                   *)
(***************************************************************************)
LoadInProgress == pc \in {"cleaned", "removed", "schema", "inserted", "stats"}

\* the request reads a table of the store
ReadsStore(req) ==
    \/ req.op \in {"details", "stats"}
    \/ /\ req.op = "search"
       /\ (req.limit = ABSENT \/ ParseInt(req.limit) # -999)
       /\ \/ Strip(Arg(req.q, <<>>)) = <<>>
          \/ req.type \in {"(absent)", "item_name", "mnemonic", "item_code"}

CompleteStore(st) == st.has_data /\ st.has_summary /\ st.summary # {}

C16_ReaderSeesOldStoreOrError ==
    [][(/\ Served
        /\ LoadInProgress
        /\ ReadsStore(request')
        /\ response'.status # 500)
       => (pc = "cleaned" /\ CompleteStore(store))]_vars

(***************************************************************************)
(* C13: for each of the three free-text fields (item name, description,    *)
(* series glossary) of every loaded row, the stored value is the source    *)
(* value with every &#x0D; replaced by a newline, then every &amp;         *)
(* replaced by &, then leading and trailing whitespace stripped.           *)
(***************************************************************************)
Decoded(s) == Strip(Replace(Replace(s, CR_ENTITY, <<"\n">>), AMP_ENTITY, <<"&">>))

C13_TextDecoded ==
    (FullFile /\ pc \in {"inserted", "stats", "done"}) =>
        /\ Len(store.data) = Len(source.rows)
        /\ \A i \in 1..Len(store.data) :
              \A k \in {"item_name", "description", "series_glossary"} :
                 store.data[i][k] = Text(Decoded(source.rows[i][columns_mapping[k]]))

\* the same, for the fields that the file fills with a text that is not a number
C13_PresentTextDecoded ==
    (FullFile /\ pc \in {"inserted", "stats", "done"}) =>
        \A i \in 1..Len(store.data) :
           \A k \in {"item_name", "description", "series_glossary"} :
              LET cell == source.rows[i][columns_mapping[k]]
              IN  (cell \notin NaValues /\ ~IsNumericText(cell))
                    => store.data[i][k] = Text(Decoded(cell))

(***************************************************************************)
(* C14: a completed run leaves a store that depends only on the source     *)
(* file and the date, whatever was at the target location before (nothing, *)
(* an empty file, a complete store of another file, or what a load left    *)
(* that ended after the destroy, after the schema, after the insert or     *)
(* during the aggregation): its fact rows are the rows of the file, keyed  *)
(* from 1 and stamped by this run, its statistics are the ones computed    *)
(* from these rows by this run, and the run does not fail on what it found.*)
(***************************************************************************)
Readable == CsvExists(source) /\ source.header = AllColumns

C14_StoreDependsOnSource ==
    /\ Readable => pc # "failed"
    /\ pc = "done" =>
          \E d1 \in 1..today : \E d2 \in d1..today :
             LET data == ToSql(<<>>, clean_csv_data(source), Stamp(d1, runs))
             IN  store = [exists |-> TRUE, has_data |-> TRUE, data |-> data,
                          has_summary |-> TRUE,
                          summary |-> create_summary_stats(data, d2, Stamp(d2, runs))]

\* a run completed over the rows and the empty statistics table that a load
\* of another file left when it ended during the aggregation
C14_Witness ==
    /\ pc = "done"
    /\ ~prev.valid
    /\ prev.store.has_summary /\ prev.store.summary = {}
    /\ prev.store.data # <<>>
    /\ store.data # <<>>
    /\ FactView(prev.store.data) # FactView(store.data)

\* a run completed after the run before it, on the same file, ended
\* during the aggregation
C14_RetryAfterAbort ==
    /\ pc = "done"
    /\ runs = 2
    /\ ~prev.valid
    /\ prev.store.has_summary /\ prev.store.summary = {}
    /\ FactView(prev.store.data) = FactView(store.data)
    /\ store.data # <<>>

(***************************************************************************)
(* C15: when the source file is absent (no file can fail to decode under   *)
(* both encodings: latin-1 gives every byte a character), the run exits    *)
(* with status 1 and the store is what it was before the run: an existing  *)
(* store is neither destroyed nor modified, and none is created.           *)
(***************************************************************************)
C15_AbsentSourceLeavesStore ==
    [][(runs' = runs + 1 /\ ~(source.kind \in {"file", "latin1"}))
          => /\ pc' = "failed"
             /\ exit_status' = 1
             /\ store' = store]_vars

C15_Witness ==
    /\ source = AbsentFile
    /\ pc = "failed"
    /\ exit_status = 1
    /\ runs = 1
    /\ CompleteStore(store)
    /\ store = prev.store

\* a file that is not UTF-8 is loaded by the second read
C15_Latin1Loads ==
    /\ source = Latin1File
    /\ pc = "done"
    /\ Len(store.data) = 1

====
